---- MODULE Spec2Model ----
(***************************************************************************)
(* A model of the news publication pipeline of sheepenz_news:              *)
(* NewsManager.process_news and the services it drives (the language-model *)
(* content generator, the image resolver, the local image materializer,    *)
(* the JSON cache file and the Strapi publisher).                          *)
(*                                                                         *)
(* Texts are sequences of one-character strings, so that slugify and       *)
(* sanitize_filename can be computed character by character.  Python's     *)
(* None is the one-element sequence <<"None">>, which is no text.          *)
(* The local file system is assumed to work (open/write/listdir do not     *)
(* fail); every network call has all the outcomes the code distinguishes.  *)
(***************************************************************************)
EXTENDS Integers, Sequences, FiniteSets, TLC

\* ------------------------------------------------------------------ bounds
\* Largest number of raw items one language-model response carries.
MaxCount == 1
\* Number of process_news invocations one behaviour follows.
MaxRuns == 2
\* Longest batch handed directly to upload_news_items (SpecUpload).
MaxBatch == 2
\* Longest record list handed to save_news_to_json (SpecRoundTrip).
MaxList == 2
\* Longest title handed to slugify (SpecSlug).
MaxTitleLen == 3

\* ------------------------------------------------------------------ values
None == <<"None">>
\* JSON null, the persisted form of None.
JsonNull == <<"null">>

\* `not x` of Python for an Optional[str]: None and "" are falsy.
Truthy(x) == x # None /\ x # <<>>

\* safe_filename[:50] in save_images_locally and find_local_images.
FilenameCap == 50

Take(s, n) == IF Len(s) <= n THEN s ELSE SubSeq(s, 1, n)

SeqsUpTo(S, n) == UNION {[1..k -> S] : k \in 0..n}

\* ------------------------------------------------------------------ utils/formatters.py
\* str.isalnum() for the characters of the model ("é" is a letter).
IsAlnum(c) == c \in {"A", "a", "b", "e", "1", "é"}

\* sanitize_filename: every non-alphanumeric character becomes "_".
sanitize_filename(filename) ==
    [i \in 1..Len(filename) |-> IF IsAlnum(filename[i]) THEN filename[i] ELSE "_"]

\* unicodedata.normalize('NFKD', c).encode('ascii', 'ignore') for one character:
\* "é" decomposes to "e" plus a combining accent, which is dropped.
NfkdAscii(c) == IF c = "é" THEN "e" ELSE c

\* str.lower() for one character.
Lower(c) == IF c = "A" THEN "a" ELSE c

IsSpace(c) == c = " "

\* \w of Python's re on an ASCII text: letters, digits and the underscore.
IsWord(c) == c \in {"A", "a", "b", "e", "1", "_"}

\* re.sub(r'[\s]+', '-', text): every run of whitespace becomes one hyphen.
RECURSIVE SpacesToHyphen(_)
SpacesToHyphen(t) ==
    IF t = <<>> THEN <<>>
    ELSE IF IsSpace(Head(t))
         THEN IF Len(t) > 1 /\ IsSpace(t[2])
              THEN SpacesToHyphen(Tail(t))
              ELSE <<"-">> \o SpacesToHyphen(Tail(t))
         ELSE <<Head(t)>> \o SpacesToHyphen(Tail(t))

\* re.sub(r'[^\w\-]', '', text)
RemoveSpecial(t) == SelectSeq(t, LAMBDA c : IsWord(c) \/ c = "-")

\* re.sub(r'[-]+', '-', text)
RECURSIVE CollapseHyphens(_)
CollapseHyphens(t) ==
    IF t = <<>> THEN <<>>
    ELSE IF Head(t) = "-" /\ Len(t) > 1 /\ t[2] = "-"
         THEN CollapseHyphens(Tail(t))
         ELSE <<Head(t)>> \o CollapseHyphens(Tail(t))

\* text.strip('-')
RECURSIVE StripLeft(_)
StripLeft(t) == IF t # <<>> /\ Head(t) = "-" THEN StripLeft(Tail(t)) ELSE t

RECURSIVE StripRight(_)
StripRight(t) ==
    IF t # <<>> /\ t[Len(t)] = "-" THEN StripRight(SubSeq(t, 1, Len(t) - 1)) ELSE t

\* strip('-') replaced by lstrip('-'): trailing hyphens stay.
StripHyphens_left_only(t) == StripLeft(t)

StripHyphens(t) == StripRight(StripLeft(t))

slugify(text) ==
    LET normalized == [i \in 1..Len(text) |-> NfkdAscii(text[i])]
        lowered    == [i \in 1..Len(normalized) |-> Lower(normalized[i])]
    IN  StripHyphens(CollapseHyphens(RemoveSpecial(SpacesToHyphen(lowered))))

\* ------------------------------------------------------------------ models/news_item.py
\* The NewsItem dataclass (field order of the source).
NewsItem(title, summary, source, url, published_date, category, image_url, local_image_path, slug) ==
    [title |-> title, summary |-> summary, source |-> source, url |-> url,
     published_date |-> published_date, category |-> category,
     image_url |-> image_url, local_image_path |-> local_image_path, slug |-> slug]

\* to_dict with the "url" entry forgotten (the value is lost on the way to the file).
to_dict_without_url(item) ==
    [title |-> item.title, summary |-> item.summary, source |-> item.source,
     url |-> None, published_date |-> item.published_date,
     category |-> item.category, image_url |-> item.image_url, slug |-> item.slug]

\* NewsItem.to_dict: eight keys, local_image_path is not among them.
to_dict(item) ==
    [title |-> item.title, summary |-> item.summary, source |-> item.source,
     url |-> item.url, published_date |-> item.published_date,
     category |-> item.category, image_url |-> item.image_url, slug |-> item.slug]

\* ------------------------------------------------------------------ the cache file
\* json.dump / json.load of one value: None is written as null and read back as None.
JsonEncode(v) == IF v = None THEN JsonNull ELSE v
JsonDecode(v) == IF v = JsonNull THEN None ELSE v

JsonDumpDict(d) == [k \in DOMAIN d |-> JsonEncode(d[k])]

\* A file is absent, holds text that is no JSON, or holds a JSON array of objects.
AbsentFile == [kind |-> "absent", data |-> <<>>]
InvalidFile == [kind |-> "invalid", data |-> <<>>]
JsonFile(data) == [kind |-> "json", data |-> data]

\* os.path.exists(filename)
FileExists(file) == file.kind # "absent"

\* NewsManager.save_news_to_json: the file is opened with 'w' (truncated) and
\* receives the array of the items' dictionaries.
save_news_to_json(items) ==
    JsonFile([i \in 1..Len(items) |-> JsonDumpDict(to_dict(items[i]))])

\* dict.get(key) on a loaded JSON object.
DictGet(d, k) == IF k \in DOMAIN d THEN JsonDecode(d[k]) ELSE None

RequiredKeys == {"title", "summary", "source"}

\* The slug a loaded record ends with: "if not news_item.slug: slugify(title)".
LoadedSlug(slug, title) == IF Truthy(slug) THEN slug ELSE slugify(title)

\* One iteration of the loop of load_news_from_json.
LoadItem(d) ==
    NewsItem(JsonDecode(d["title"]), JsonDecode(d["summary"]), JsonDecode(d["source"]),
             DictGet(d, "url"), DictGet(d, "published_date"), DictGet(d, "category"),
             DictGet(d, "image_url"), None,
             LoadedSlug(DictGet(d, "slug"), JsonDecode(d["title"])))

\* NewsManager.load_news_from_json: a missing file, text that is no JSON, or an
\* object without a required key (KeyError) all give the empty list.
load_news_from_json(file) ==
    IF ~FileExists(file) THEN <<>>
    ELSE IF file.kind = "invalid" THEN <<>>
    ELSE IF \E i \in 1..Len(file.data) : ~(RequiredKeys \subseteq DOMAIN file.data[i])
         THEN <<>>
    \* slugify(None) raises inside the try block
    ELSE IF \E i \in 1..Len(file.data) :
                /\ ~Truthy(DictGet(file.data[i], "slug"))
                /\ file.data[i]["title"] = JsonNull
         THEN <<>>
         ELSE [i \in 1..Len(file.data) |-> LoadItem(file.data[i])]

\* ------------------------------------------------------------------ services/openai_service.py
\* What the chat endpoint can answer, as far as generate_news tells answers apart:
\*   transport      requests.post raises, or raise_for_status on a non-2xx status
\*   malformed_json the body, or the message content, is no JSON
\*   missing_key    the body lacks "choices", "message" or "content"
\*   empty_choices  "choices" is an empty list
\*   content        the message content parses to the array `data`
LlmFailureKinds == {"transport", "malformed_json", "missing_key", "empty_choices"}

RawFull ==
    [title |-> <<"A", " ", "b">>, summary |-> <<"s">>, source |-> <<"r">>,
     published_date |-> <<"1">>, category |-> <<"c">>]
RawBare == [title |-> <<"!">>, summary |-> <<"s">>, source |-> <<"r">>]
RawNoTitle == [summary |-> <<"s">>, source |-> <<"r">>]

\* The arrays the language model answers with: the first n objects of a stream of
\* well-formed objects, and the same with the last object lacking its title.
GoodItem(i) == IF i % 2 = 1 THEN RawFull ELSE RawBare

GoodArray(n) == [i \in 1..n |-> GoodItem(i)]

BadArray(n) == [i \in 1..n |-> IF i = n THEN RawNoTitle ELSE GoodItem(i)]

GenArrays == {GoodArray(n) : n \in 0..MaxCount} \cup {BadArray(n) : n \in 1..MaxCount}

LlmResponses ==
    {[kind |-> k, data |-> <<>>] : k \in LlmFailureKinds}
        \cup {[kind |-> "content", data |-> d] : d \in GenArrays}

\* The result of a call: the exception it ends with ("none" when it returns) and
\* the value it returns.
Returned(v) == [exc |-> "none", value |-> v]
Raised(e) == [exc |-> e, value |-> <<>>]

\* OpenAIService.generate_news: RequestException, JSONDecodeError and KeyError are
\* caught and give []; nothing else is caught.
\* generate_news without `except requests.exceptions.RequestException`.
generate_news_without_except(resp) ==
    CASE resp.kind = "transport"      -> Raised("RequestException")
      [] resp.kind = "malformed_json" -> Returned(<<>>)
      [] resp.kind = "missing_key"    -> Returned(<<>>)
      [] resp.kind = "empty_choices"  -> Raised("IndexError")
      [] resp.kind = "content"        -> Returned(resp.data)

generate_news(resp) ==
    CASE resp.kind = "transport"      -> Returned(<<>>)
      [] resp.kind = "malformed_json" -> Returned(<<>>)
      [] resp.kind = "missing_key"    -> Returned(<<>>)
      [] resp.kind = "empty_choices"  -> Raised("IndexError")
      [] resp.kind = "content"        -> Returned(resp.data)

UnsplashUrl == <<"u">>
DalleUrl == <<"d">>

\* UnsplashService.search_image: None without an API key, else the first result's
\* URL, or None when the search fails or finds nothing.
search_image(headers, hit) == IF headers /\ hit THEN UnsplashUrl ELSE None

\* OpenAIService.generate_image: the generated image's URL, or None.
generate_image(hit) == IF hit THEN DalleUrl ELSE None

\* ------------------------------------------------------------------ services/news_manager.py
\* The image resolution of generate_news_items for one item; env says whether the
\* photo search and the image generation would succeed.
\* The resolver with the test of line 68 forgotten: generate_image is called even
\* after a successful search.
ResolveImage_generation_always(headers, env) ==
    LET found == search_image(headers, env.search)
        made  == generate_image(env.gen)
    IN  [url |-> IF Truthy(found) THEN found ELSE made,
         calls |-> <<[call |-> "search_image", returned |-> found],
                     [call |-> "generate_image", returned |-> made]>>]

ResolveImage(headers, env) ==
    LET found == search_image(headers, env.search)
    IN  IF Truthy(found)
        THEN [url |-> found,
              calls |-> <<[call |-> "search_image", returned |-> found]>>]
        ELSE [url |-> generate_image(env.gen),
              calls |-> <<[call |-> "search_image", returned |-> found],
                          [call |-> "generate_image",
                           returned |-> generate_image(env.gen)]>>]

ImageEnvs == [search : BOOLEAN, gen : BOOLEAN]

DictGetRaw(d, k) == IF k \in DOMAIN d THEN d[k] ELSE None

\* One iteration of the loop of generate_news_items on a raw item that has the
\* required keys.
GenerateItem(raw, headers, env) ==
    NewsItem(raw["title"], raw["summary"], raw["source"], None,
             DictGetRaw(raw, "published_date"), DictGetRaw(raw, "category"),
             ResolveImage(headers, env).url, None, slugify(raw["title"]))

\* NewsManager.generate_news_items, given generate_news's result and one image
\* environment per raw item: item["title"] on an object without the key raises
\* KeyError, which nothing catches.
generate_news_items(generated, headers, envs) ==
    IF generated.exc # "none" THEN Raised(generated.exc)
    ELSE IF \E i \in 1..Len(generated.value) :
                ~(RequiredKeys \subseteq DOMAIN generated.value[i])
         THEN Raised("KeyError")
         ELSE Returned([i \in 1..Len(generated.value) |->
                           GenerateItem(generated.value[i], headers, envs[i])])

\* The calls the image resolver made for each record of a generated list.
ImageCalls(generated, headers, envs) ==
    [i \in 1..Len(generated.value) |-> ResolveImage(headers, envs[i]).calls]

Digits == <<"1", "2", "3", "4", "5", "6", "7", "8", "9">>

\* f"{i+1}_{safe_filename}.jpg" with safe_filename = sanitize_filename(title)[:50];
\* position is the 1-based index.
ImageFileName(position, title) ==
    <<Digits[position], "_">> \o Take(sanitize_filename(title), FilenameCap)
        \o <<".", "j", "p", "g">>

IsSuffix(suffix, t) ==
    /\ Len(suffix) <= Len(t)
    /\ SubSeq(t, Len(t) - Len(suffix) + 1, Len(t)) = suffix

\* fnmatch.fnmatch(file, f"*_{sanitize_filename(title)[:50]}.jpg")
MatchesPattern(file, title) ==
    IsSuffix(<<"_">> \o Take(sanitize_filename(title), FilenameCap)
                 \o <<".", "j", "p", "g">>, file)

\* NewsManager.find_local_images: the lists it can leave, one per order in which
\* os.listdir may enumerate the folder (the first matching file wins).
find_local_images(items, folder) ==
    {[i \in 1..Len(items) |->
         IF choice[i] = None THEN items[i]
         ELSE [items[i] EXCEPT !.local_image_path = choice[i]]] :
     choice \in {c \in [1..Len(items) -> folder \cup {None}] :
                    \A i \in 1..Len(items) :
                        LET matching == {f \in folder : MatchesPattern(f, items[i].title)}
                        IN  IF matching = {} THEN c[i] = None ELSE c[i] \in matching}}

\* ------------------------------------------------------------------ utils/image_utils.py
\* What requests.get of an image URL can do.
GetOutcomes == {"ok", "non200", "error"}

\* The loop of save_images_locally without its "if not item.image_url: continue".
Downloads_without_skip(items) == 1..Len(items)

\* save_images_locally: records without image_url are skipped; a 200 answer is
\* written to the folder and its path stored; anything else changes nothing.
Downloads(items) == {i \in 1..Len(items) : Truthy(items[i].image_url)}

save_images_locally(items, outcomes) ==
    [i \in 1..Len(items) |->
        IF i \in Downloads(items) /\ outcomes[i] = "ok"
        THEN [items[i] EXCEPT !.local_image_path = ImageFileName(i, items[i].title)]
        ELSE items[i]]

SavedFiles(items, outcomes) ==
    {ImageFileName(i, items[i].title) :
        i \in {j \in Downloads(items) : outcomes[j] = "ok"}}

\* ------------------------------------------------------------------ services/strapi_service.py
\* What the record-create endpoint can answer:
\*   http500   a 5xx status: raise_for_status raises
\*   error     requests.post raises (no connection)
\*   object_id 2xx, {"data": {"id": n}}
\*   list_id   2xx, {"data": [{"id": n}]}
\*   no_id     2xx, {"data": {}}
CreateOutcomes == {"http500", "error", "object_id", "list_id", "no_id"}

\* The answers that carry the identifier of a record the CMS created.
CreatedOutcomes == {"object_id", "list_id"}

\* No identifier: None, which `not article_id` treats like 0.
NoId == 0

\* The identifier the CMS gives the record created for position i of the batch
\* of run r: positive, and different for different records.
ServerId(r, i) == 10 * r + i

\* Lines 114-130: the identifier upload_news_items takes from the answer to the
\* create call, NoId when it skips the record.  result.get("data", {}).get("id")
\* is evaluated first; when data is a list, list.get raises AttributeError, which
\* the except clause of the loop catches.
ExtractId(outcome, id) ==
    CASE outcome = "http500"   -> NoId
      [] outcome = "error"     -> NoId
      [] outcome = "object_id" -> id
      [] outcome = "list_id"   -> NoId
      [] outcome = "no_id"     -> NoId

\* StrapiService.upload_image: None when the file does not exist (no request is
\* made), else the asset identifier of a 201 answer, None on any other answer.
upload_image(exists, asset_ok) ==
    [asset_call |-> exists, has_id |-> exists /\ asset_ok]

ItemEnvs == [temp_ok : BOOLEAN, asset_ok : BOOLEAN, create : CreateOutcomes]

\* Step 1 of the loop of upload_news_items for one record: the local image is
\* preferred; with only a URL the image is downloaded to a temporary file first.
UploadImageStep(item, folder, env) ==
    IF Truthy(item.local_image_path)
    THEN upload_image(item.local_image_path \in folder, env.asset_ok)
    ELSE IF Truthy(item.image_url)
         THEN IF env.temp_ok THEN upload_image(TRUE, env.asset_ok)
              ELSE [asset_call |-> FALSE, has_id |-> FALSE]
         ELSE [asset_call |-> FALSE, has_id |-> FALSE]

\* One iteration of the loop of upload_news_items: what was sent and what came
\* back.  "cover" says whether the payload carries the cover field.
UploadEntry(item, position, run, folder, env) ==
    LET image == UploadImageStep(item, folder, env)
    IN  [position |-> position, title |-> item.title,
         asset_call |-> image.asset_call, cover |-> image.has_id,
         create_call |-> TRUE, outcome |-> env.create,
         id |-> IF env.create \in CreatedOutcomes THEN ServerId(run, position) ELSE NoId]

\* created_ids after the iteration that produced `entry`.
AppendCreated(ids, entry) ==
    IF ExtractId(entry.outcome, entry.id) # NoId
    THEN Append(ids, ExtractId(entry.outcome, entry.id))
    ELSE ids

\* ------------------------------------------------------------------ state
VARIABLES
    pc,            \* where the run is: start, idle, cache, fresh, save, download,
                   \* upload, upload_loop, done, raised, failed
    config,        \* which credentials the environment provides
    args,          \* the flags of the current process_news call
    news_items,    \* the list process_news / upload_news_items works on
    cache_file,    \* {category}_news_{today}.json
    image_folder,  \* the names of the files in the image folder
    created_ids,   \* created_ids of upload_news_items
    idx,           \* the position of the loop of upload_news_items
    result,        \* the list process_news returned
    raised,        \* the exception the run ended with, "none" otherwise
    runs,          \* how many runs were started
    \* what the current run did, kept to state the properties:
    cache_before,  \* the cache file when process_news was called
    loaded,        \* whether load_news_from_json was called, and what it gave
    gen_calls,     \* how many times generate_news was invoked
    llm_resp,      \* the language model's answer, NoResponse before
    image_calls,   \* per generated record, the image resolver's calls and
                   \* what each returned
    downloaded,    \* the positions save_images_locally requested an image for
    create_log,    \* per iteration of upload_news_items, what was sent and answered
    effects,       \* the kinds of work done since the run started
    \* what the CMS was sent over all runs, per title of a record (counted in
    \* SpecRepublish only):
    cms            \* batches:  how many calls of upload_news_items had the record
                   \* attempts: how many create calls were sent for it
                   \* created:  how many articles the CMS created for it

vars == <<pc, config, args, news_items, cache_file, image_folder, created_ids, idx,
          result, raised, runs, cache_before, loaded, gen_calls, llm_resp,
          image_calls, downloaded, create_log, effects, cms>>

runVars == <<cache_before, loaded, gen_calls, llm_resp, image_calls, downloaded,
             create_log, effects>>

\* Counters per title; a title never counted stands at 0.
CountOf(f, t) == IF t \in DOMAIN f THEN f[t] ELSE 0

AddTo(f, t, n) == [x \in DOMAIN f \cup {t} |-> CountOf(f, x) + (IF x = t THEN n ELSE 0)]

\* The CMS before the first run: nothing was sent to it.
EmptyCms == [batches |-> <<>>, attempts |-> <<>>, created |-> <<>>]

\* batches after a call of upload_news_items with `items` passed its guard.
CountBatch(batches, items) ==
    [t \in DOMAIN batches \cup {items[i].title : i \in 1..Len(items)} |->
        CountOf(batches, t) + Cardinality({i \in 1..Len(items) : items[i].title = t})]

\* cms after the iteration that produced `entry`.
CountEntry(c, entry) ==
    [c EXCEPT !.attempts = IF entry.create_call THEN AddTo(@, entry.title, 1) ELSE @,
              !.created = IF entry.create_call /\ entry.outcome \in CreatedOutcomes
                          THEN AddTo(@, entry.title, 1) ELSE @]

\* The environments a behaviour starts in: every key present, or one missing.
AllKeys ==
    [api_key |-> TRUE, unsplash_key |-> TRUE, strapi_url |-> TRUE, strapi_token |-> TRUE]
Configs ==
    {AllKeys,
     [AllKeys EXCEPT !.api_key = FALSE],
     [AllKeys EXCEPT !.unsplash_key = FALSE],
     [AllKeys EXCEPT !.strapi_url = FALSE],
     [AllKeys EXCEPT !.strapi_token = FALSE]}

\* OpenAIService.__init__ raises ValueError without an API key.
OpenAIConstructs(cfg) == cfg.api_key

\* UnsplashService.__init__: headers are None without an API key.
UnsplashHeaders(cfg) == cfg.unsplash_key

\* StrapiService.__init__: without URL or token it prints a warning and sets
\* headers to None; it does not raise.
StrapiHeaders(cfg) == cfg.strapi_url /\ cfg.strapi_token

\* The guard of upload_news_items looking at the URL only.
UploadRefused_url_only(cfg) == ~cfg.strapi_url

\* The guard of upload_news_items: "if not self.api_url or not self.headers".
UploadRefused(cfg) == ~cfg.strapi_url \/ ~StrapiHeaders(cfg)

Flags ==
    [force_fetch : BOOLEAN, save_json : BOOLEAN, download_images : BOOLEAN,
     upload_to_strapi : BOOLEAN]
NoFlags ==
    [force_fetch |-> FALSE, save_json |-> FALSE, download_images |-> FALSE,
     upload_to_strapi |-> FALSE]

NotLoaded == [called |-> FALSE, items |-> <<>>]

NoResponse == [kind |-> "none", data |-> <<>>]

\* A persisted record as an earlier version of the program, or a hand, may have
\* left it: no slug key, a remote image.
OldDict ==
    [title |-> <<"A", " ", "b">>, summary |-> <<"s">>, source |-> <<"r">>,
     image_url |-> UnsplashUrl]

\* The cache files a behaviour can start with.
InitialCaches ==
    {AbsentFile, InvalidFile, JsonFile(<<>>), JsonFile(<<RawNoTitle>>),
     JsonFile(<<OldDict>>)}

\* The image folder is empty at first; downloads fill it.
InitialFolders == {{}}

Init ==
    /\ pc = "start"
    /\ config \in Configs
    /\ args = NoFlags
    /\ news_items = <<>>
    /\ cache_file \in InitialCaches
    /\ image_folder \in InitialFolders
    /\ created_ids = <<>>
    /\ idx = 1
    /\ result = <<>>
    /\ raised = "none"
    /\ runs = 0
    /\ cache_before = AbsentFile
    /\ loaded = NotLoaded
    /\ gen_calls = 0
    /\ llm_resp = NoResponse
    /\ image_calls = <<>>
    /\ downloaded = {}
    /\ create_log = <<>>
    /\ effects = {}
    /\ cms = EmptyCms

\* ------------------------------------------------------------------ main.py
\* main, lines 46-57: the three services and the manager are constructed.  A run
\* starts from a fresh process; the cache file and the image folder stay.
Construct ==
    /\ pc \in {"start", "done", "raised", "failed"}
    /\ runs < MaxRuns
    /\ runs' = runs + 1
    /\ news_items' = <<>>
    /\ created_ids' = <<>>
    /\ idx' = 1
    /\ result' = <<>>
    /\ args' = NoFlags
    /\ cache_before' = AbsentFile
    /\ loaded' = NotLoaded
    /\ gen_calls' = 0
    /\ llm_resp' = NoResponse
    /\ image_calls' = <<>>
    /\ downloaded' = {}
    /\ create_log' = <<>>
    /\ effects' = {}
    /\ IF OpenAIConstructs(config)
       THEN pc' = "idle" /\ raised' = "none"
       ELSE pc' = "failed" /\ raised' = "ValueError"
    /\ UNCHANGED <<config, cache_file, image_folder>>
    /\ UNCHANGED cms

\* ------------------------------------------------------------------ process_news
\* The decision of line 181.
UseCache(force_fetch, file) == ~force_fetch /\ FileExists(file)

\* Line 191 regenerating whatever the cache gave.
NeedFresh_always(items, force_fetch) == TRUE

\* Line 191 regenerating only on force_fetch.
NeedFresh_force_only(items, force_fetch) == force_fetch

\* The decision of line 191.
NeedFresh(items, force_fetch) == items = <<>> \/ force_fetch

\* main calls process_news with its flags (lines 60-68).
Begin ==
    /\ pc = "idle"
    /\ \E flags \in Flags : args' = flags
    /\ cache_before' = cache_file
    /\ pc' = "cache"
    /\ UNCHANGED <<config, news_items, cache_file, image_folder, created_ids, idx,
                   result, raised, runs, loaded, gen_calls, llm_resp, image_calls,
                   downloaded, create_log, effects>>
    /\ UNCHANGED cms

\* Lines 178-188: the cache lookup and the backfill of local images.
CacheLookup ==
    /\ pc = "cache"
    /\ IF UseCache(args.force_fetch, cache_file)
       THEN LET items == load_news_from_json(cache_file)
            IN  /\ loaded' = [called |-> TRUE, items |-> items]
                /\ IF items # <<>>
                   THEN news_items' \in find_local_images(items, image_folder)
                   ELSE news_items' = items
       ELSE /\ loaded' = NotLoaded
            /\ news_items' = <<>>
    /\ pc' = "fresh"
    /\ UNCHANGED <<config, args, cache_file, image_folder, created_ids, idx, result,
                   raised, runs, cache_before, gen_calls, llm_resp, image_calls,
                   downloaded, create_log, effects>>
    /\ UNCHANGED cms

\* Lines 190-193: fresh generation.  An exception of generate_news_items leaves
\* process_news.
Generate ==
    /\ pc = "fresh"
    /\ NeedFresh(news_items, args.force_fetch)
    /\ \E resp \in LlmResponses, envs \in [1..MaxCount -> ImageEnvs] :
          LET generated == generate_news(resp)
              made == generate_news_items(generated, UnsplashHeaders(config), envs)
          IN  /\ llm_resp' = resp
              /\ IF made.exc = "none"
                 THEN /\ news_items' = made.value
                      /\ image_calls' =
                             ImageCalls(generated, UnsplashHeaders(config), envs)
                      /\ pc' = "save"
                      /\ raised' = "none"
                 ELSE /\ UNCHANGED <<news_items, image_calls>>
                      /\ pc' = "raised"
                      /\ raised' = made.exc
    /\ gen_calls' = gen_calls + 1
    /\ effects' = effects \cup {"generate"}
    /\ UNCHANGED <<config, args, cache_file, image_folder, created_ids, idx, result,
                   runs, cache_before, loaded, downloaded, create_log>>
    /\ UNCHANGED cms

\* Line 191 false: the loaded list is kept and nothing is saved.
KeepCached ==
    /\ pc = "fresh"
    /\ ~NeedFresh(news_items, args.force_fetch)
    /\ pc' = "download"
    /\ UNCHANGED <<config, args, news_items, cache_file, image_folder, created_ids,
                   idx, result, raised, runs>>
    /\ UNCHANGED runVars
    /\ UNCHANGED cms

\* Lines 195-197: the generated list is saved if requested.
Save ==
    /\ pc = "save"
    /\ IF args.save_json
       THEN /\ cache_file' = save_news_to_json(news_items)
            /\ effects' = effects \cup {"cache_write"}
       ELSE UNCHANGED <<cache_file, effects>>
    /\ pc' = "download"
    /\ UNCHANGED <<config, args, news_items, image_folder, created_ids, idx, result,
                   raised, runs, cache_before, loaded, gen_calls, llm_resp,
                   image_calls, downloaded, create_log>>
    /\ UNCHANGED cms

\* Lines 199-201: save_images_locally if requested.
Download ==
    /\ pc = "download"
    /\ IF args.download_images
       THEN \E outcomes \in [1..Len(news_items) -> GetOutcomes] :
               /\ news_items' = save_images_locally(news_items, outcomes)
               /\ image_folder' = image_folder \cup SavedFiles(news_items, outcomes)
               /\ downloaded' = Downloads(news_items)
               /\ effects' = IF Downloads(news_items) = {} THEN effects
                                ELSE effects \cup {"download"}
       ELSE UNCHANGED <<news_items, image_folder, downloaded, effects>>
    /\ pc' = "upload"
    /\ UNCHANGED <<config, args, cache_file, created_ids, idx, result, raised, runs,
                   cache_before, loaded, gen_calls, llm_resp, image_calls, create_log>>
    /\ UNCHANGED cms

\* Lines 203-207 without publishing: the list is returned.
ReturnUnpublished ==
    /\ pc = "upload"
    /\ ~args.upload_to_strapi
    /\ result' = news_items
    /\ pc' = "done"
    /\ UNCHANGED <<config, args, news_items, cache_file, image_folder, created_ids,
                   idx, raised, runs>>
    /\ UNCHANGED runVars
    /\ UNCHANGED cms

\* upload_news_items, lines 48-52: without URL or headers it raises ValueError,
\* which process_news does not catch.
UploadStartStep ==
    /\ pc = "upload"
    /\ args.upload_to_strapi
    /\ IF UploadRefused(config)
       THEN pc' = "raised" /\ raised' = "ValueError"
       ELSE pc' = "upload_loop" /\ raised' = "none"
    /\ created_ids' = <<>>
    /\ idx' = 1
    /\ create_log' = <<>>
    /\ UNCHANGED <<config, args, news_items, cache_file, image_folder, result, runs,
                   cache_before, loaded, gen_calls, llm_resp, image_calls,
                   downloaded, effects>>

UploadStart == UploadStartStep /\ UNCHANGED cms

\* The iteration as it would be if the pipeline looked up what was published: no
\* create call for a record the CMS already created an article for.
UploadItemStep_once ==
    /\ pc = "upload_loop"
    /\ idx <= Len(news_items)
    /\ \E env \in ItemEnvs :
          LET sent  == UploadEntry(news_items[idx], idx, runs, image_folder, env)
              entry == IF CountOf(cms.created, sent.title) > 0
                       THEN [sent EXCEPT !.create_call = FALSE, !.outcome = "no_id",
                                         !.id = NoId]
                       ELSE sent
          IN  /\ create_log' = Append(create_log, entry)
              /\ created_ids' = AppendCreated(created_ids, entry)
              /\ effects' = effects \cup {"create"}
                     \cup (IF entry.asset_call THEN {"asset_upload"} ELSE {})
    /\ idx' = idx + 1
    /\ UNCHANGED <<pc, config, args, news_items, cache_file, image_folder, result,
                   raised, runs, cache_before, loaded, gen_calls, llm_resp,
                   image_calls, downloaded>>

\* upload_news_items, lines 54-136: one iteration of the loop.  Every exception
\* of the iteration is caught and the loop goes on with the next record.
UploadItemStep ==
    /\ pc = "upload_loop"
    /\ idx <= Len(news_items)
    /\ \E env \in ItemEnvs :
          LET entry == UploadEntry(news_items[idx], idx, runs, image_folder, env)
          IN  /\ create_log' = Append(create_log, entry)
              /\ created_ids' = AppendCreated(created_ids, entry)
              /\ effects' = effects \cup {"create"}
                     \cup (IF entry.asset_call THEN {"asset_upload"} ELSE {})
    /\ idx' = idx + 1
    /\ UNCHANGED <<pc, config, args, news_items, cache_file, image_folder, result,
                   raised, runs, cache_before, loaded, gen_calls, llm_resp,
                   image_calls, downloaded>>

UploadItem == UploadItemStep /\ UNCHANGED cms

\* upload_news_items returns created_ids (line 138) and process_news the list.
UploadReturn ==
    /\ pc = "upload_loop"
    /\ idx > Len(news_items)
    /\ result' = news_items
    /\ pc' = "done"
    /\ UNCHANGED <<config, args, news_items, cache_file, image_folder, created_ids,
                   idx, raised, runs>>
    /\ UNCHANGED runVars
    /\ UNCHANGED cms

Next ==
    \/ Construct
    \/ Begin
    \/ CacheLookup
    \/ Generate
    \/ KeepCached
    \/ Save
    \/ Download
    \/ ReturnUnpublished
    \/ UploadStart
    \/ UploadItem
    \/ UploadReturn

Spec == Init /\ [][Next]_vars

\* ------------------------------------------------------------------ runs as the CMS sees them
\* One more run after MaxRuns - 1 earlier ones of the same day, with the create
\* calls counted on the CMS's side over all runs.  Of the earlier runs, n published
\* the record of RawFull and the CMS created an article for c of them; today's
\* cache file is absent (no earlier run saved) or holds that record as
\* save_news_to_json wrote it.
CachedItem == GenerateItem(RawFull, TRUE, [search |-> TRUE, gen |-> TRUE])

EarlierCms(n, c) ==
    IF n = 0 THEN EmptyCms
    ELSE [batches  |-> AddTo(<<>>, CachedItem.title, n),
          attempts |-> AddTo(<<>>, CachedItem.title, n),
          created  |-> IF c = 0 THEN <<>> ELSE AddTo(<<>>, CachedItem.title, c)]

InitRepublish ==
    /\ pc = "start"
    /\ config = AllKeys
    /\ args = NoFlags
    /\ news_items = <<>>
    /\ cache_file \in {AbsentFile, save_news_to_json(<<CachedItem>>)}
    /\ image_folder \in {{}, {ImageFileName(1, CachedItem.title)}}
    /\ created_ids = <<>>
    /\ idx = 1
    /\ result = <<>>
    /\ raised = "none"
    /\ runs = MaxRuns - 1
    /\ cache_before = AbsentFile
    /\ loaded = NotLoaded
    /\ gen_calls = 0
    /\ llm_resp = NoResponse
    /\ image_calls = <<>>
    /\ downloaded = {}
    /\ create_log = <<>>
    /\ effects = {}
    /\ \E n \in 0..(MaxRuns - 1) : \E c \in 0..n : cms = EarlierCms(n, c)

\* upload_news_items passes its guard with the list: the CMS is about to be sent
\* one batch more holding each of its records.
PublishStart ==
    /\ UploadStartStep
    /\ cms' = IF UploadRefused(config) THEN cms
              ELSE [cms EXCEPT !.batches = CountBatch(@, news_items)]

\* One iteration of the loop, with what it sent counted.
PublishItem ==
    /\ UploadItemStep
    /\ cms' = CountEntry(cms, create_log'[Len(create_log')])

NextRepublish ==
    \/ Construct
    \/ Begin
    \/ CacheLookup
    \/ Generate
    \/ KeepCached
    \/ Save
    \/ Download
    \/ ReturnUnpublished
    \/ PublishStart
    \/ PublishItem
    \/ UploadReturn

SpecRepublish == InitRepublish /\ [][NextRepublish]_vars

\* ------------------------------------------------------------------ upload_news_items alone
\* upload_news_items called on any batch: records without an image, with a remote
\* image only, with a local image that exists, and with one that is gone.
BatchTitle == <<"A", " ", "b">>
BatchItem(image_url, local_image_path) ==
    NewsItem(BatchTitle, <<"s">>, <<"r">>, None, None, None, image_url,
             local_image_path, slugify(BatchTitle))

BatchItems ==
    {BatchItem(u, l) : u \in {None, UnsplashUrl},
                       l \in {None, ImageFileName(1, BatchTitle),
                                ImageFileName(2, BatchTitle)}}

InitUpload ==
    /\ pc = "upload"
    /\ config \in {AllKeys, [AllKeys EXCEPT !.strapi_token = FALSE]}
    /\ args = [NoFlags EXCEPT !.upload_to_strapi = TRUE]
    /\ news_items \in SeqsUpTo(BatchItems, MaxBatch)
    /\ cache_file = AbsentFile
    /\ image_folder = {ImageFileName(1, BatchTitle)}
    /\ created_ids = <<>>
    /\ idx = 1
    /\ result = <<>>
    /\ raised = "none"
    /\ runs = 1
    /\ cache_before = AbsentFile
    /\ loaded = NotLoaded
    /\ gen_calls = 0
    /\ llm_resp = NoResponse
    /\ image_calls = <<>>
    /\ downloaded = {}
    /\ create_log = <<>>
    /\ effects = {}
    /\ cms = EmptyCms

NextUpload ==
    \/ UploadStart
    \/ UploadItem
    \/ UploadReturn

SpecUpload == InitUpload /\ [][NextUpload]_vars

\* ------------------------------------------------------------------ the cache round trip
\* save_news_to_json followed by load_news_from_json, on lists of records as the
\* program makes them: generate_news_items sets slug to slugify(title), and
\* load_news_from_json keeps a non-empty slug of the file or computes it.
RoundTripTitles == {<<"A", " ", "b">>, <<"!">>}

RoundTripItemsOf(t) ==
    {NewsItem(t, <<"s">>, <<"r">>, url, <<"1">>, cat, img, loc, slug) :
        url \in {None, <<"h">>}, cat \in {None, <<"c">>},
        img \in {None, UnsplashUrl}, loc \in {None, ImageFileName(1, t)},
        slug \in {slugify(t), <<"b">>}}

RoundTripItems == UNION {RoundTripItemsOf(t) : t \in RoundTripTitles}

InitRoundTrip ==
    /\ pc = "given"
    /\ config = AllKeys
    /\ args = NoFlags
    /\ news_items \in SeqsUpTo(RoundTripItems, MaxList)
    /\ cache_file = JsonFile(<<OldDict>>)
    /\ image_folder = {}
    /\ created_ids = <<>>
    /\ idx = 1
    /\ result = <<>>
    /\ raised = "none"
    /\ runs = 1
    /\ cache_before = AbsentFile
    /\ loaded = NotLoaded
    /\ gen_calls = 0
    /\ llm_resp = NoResponse
    /\ image_calls = <<>>
    /\ downloaded = {}
    /\ create_log = <<>>
    /\ effects = {}
    /\ cms = EmptyCms

\* NewsManager.save_news_to_json(news_items, filename)
SaveToJson ==
    /\ pc = "given"
    /\ cache_file' = save_news_to_json(news_items)
    /\ pc' = "saved"
    /\ UNCHANGED <<config, args, news_items, image_folder, created_ids, idx, result,
                   raised, runs>>
    /\ UNCHANGED runVars
    /\ UNCHANGED cms

\* NewsManager.load_news_from_json(filename)
LoadFromJson ==
    /\ pc = "saved"
    /\ result' = load_news_from_json(cache_file)
    /\ loaded' = [called |-> TRUE, items |-> load_news_from_json(cache_file)]
    /\ pc' = "loaded"
    /\ UNCHANGED <<config, args, news_items, cache_file, image_folder, created_ids,
                   idx, raised, runs, cache_before, gen_calls, llm_resp, image_calls,
                   downloaded, create_log, effects>>
    /\ UNCHANGED cms

NextRoundTrip ==
    \/ SaveToJson
    \/ LoadFromJson

SpecRoundTrip == InitRoundTrip /\ [][NextRoundTrip]_vars

\* ------------------------------------------------------------------ slugify alone
\* news_item.slug = slugify(news_item.title) on any title over these characters:
\* an upper-case and a lower-case letter, a digit, whitespace, the hyphen, a
\* punctuation mark, the underscore and an accented letter.
TitleChars == {"A", "b", "1", " ", "-", "!", "_", "é"}

SlugTitles == SeqsUpTo(TitleChars, MaxTitleLen)

InitSlug ==
    /\ pc = "title"
    /\ config = AllKeys
    /\ args = NoFlags
    /\ news_items \in {<<NewsItem(t, <<"s">>, <<"r">>, None, None, None, None, None, None)>> :
                           t \in SlugTitles}
    /\ cache_file = AbsentFile
    /\ image_folder = {}
    /\ created_ids = <<>>
    /\ idx = 1
    /\ result = <<>>
    /\ raised = "none"
    /\ runs = 1
    /\ cache_before = AbsentFile
    /\ loaded = NotLoaded
    /\ gen_calls = 0
    /\ llm_resp = NoResponse
    /\ image_calls = <<>>
    /\ downloaded = {}
    /\ create_log = <<>>
    /\ effects = {}
    /\ cms = EmptyCms

\* news_item.slug = slugify(news_item.title)
SetSlug ==
    /\ pc = "title"
    /\ news_items' = [news_items EXCEPT ![1].slug = slugify(news_items[1].title)]
    /\ pc' = "slugged"
    /\ UNCHANGED <<config, args, cache_file, image_folder, created_ids, idx, result,
                   raised, runs>>
    /\ UNCHANGED runVars
    /\ UNCHANGED cms

NextSlug == SetSlug

SpecSlug == InitSlug /\ [][NextSlug]_vars

\* ================================================================== properties
\* The keys of the persisted form of a record.
PersistedFields ==
    {"title", "summary", "source", "url", "published_date", "category", "image_url",
     "slug"}

SamePersistedFields(a, b) == \A k \in PersistedFields : a[k] = b[k]

Range(f) == {f[i] : i \in DOMAIN f}

\* process_news has been called and has not yet ended / has ended.
Running == {"cache", "fresh", "save", "download", "upload", "upload_loop"}
Ended == {"done", "raised"}
\* The positions after the freshness decision of line 191.
AfterFresh == {"save", "download", "upload", "upload_loop", "done", "raised"}

\* Today's cache file exists, parses and holds at least one record.
CacheUsable(file) ==
    /\ file.kind = "json"
    /\ Len(file.data) > 0
    /\ \A i \in 1..Len(file.data) :
          /\ RequiredKeys \subseteq DOMAIN file.data[i]
          /\ file.data[i]["title"] # JsonNull

\* C1: in an invocation with force_fetch false that finds a usable cache file, the
\* content generator is never invoked, and the returned list is the loaded cache
\* records (same length and order, the persisted fields those of the file).
C1_CacheHitSkipsGenerator ==
    (pc \in Running \cup Ended /\ ~args.force_fetch /\ CacheUsable(cache_before)) =>
        /\ gen_calls = 0
        /\ "generate" \notin effects
        /\ pc = "done" =>
              /\ loaded.called
              /\ Len(result) = Len(cache_before.data)
              /\ \A i \in 1..Len(result) :
                    /\ SamePersistedFields(result[i], loaded.items[i])
                    /\ result[i].title = cache_before.data[i]["title"]
                    /\ result[i].image_url =
                          (IF /\ "image_url" \in DOMAIN cache_before.data[i]
                              /\ cache_before.data[i]["image_url"] # JsonNull
                           THEN cache_before.data[i]["image_url"] ELSE None)

\* C1 witness: a run that returned cached records without generating.
C1_Witness ==
    /\ pc = "done"
    /\ ~args.force_fetch
    /\ CacheUsable(cache_before)
    /\ Len(result) > 0
    /\ gen_calls = 0

\* C2 (as claimed): every invocation with force_fetch invokes the generator
\* without loading the cache and, with save_json, has overwritten the cache file
\* with the generated records when it ends.
C2_ForceFetchOverwritesCache ==
    (pc \in Ended /\ args.force_fetch) =>
        /\ gen_calls = 1
        /\ ~loaded.called
        /\ args.save_json =>
              /\ "cache_write" \in effects
              /\ cache_file.kind = "json"
              /\ Len(cache_file.data) = Len(news_items)

\* C4 (as claimed): process_news never ends by raising.
C4_ProcessNewsAlwaysReturns == pc # "raised"

\* The answers C5 speaks of: a transport failure, text that is no JSON, a missing
\* key of the response, or a generated object without title, summary or source.
ClaimedFailure(resp) ==
    \/ resp.kind \in {"transport", "malformed_json", "missing_key"}
    \/ /\ resp.kind = "content"
       /\ \E i \in 1..Len(resp.data) : ~(RequiredKeys \subseteq DOMAIN resp.data[i])

\* C5 (as claimed): such an answer is degraded to an empty list and never makes
\* generation raise.
C5_GenerationFailuresDegrade ==
    (gen_calls = 1 /\ ClaimedFailure(llm_resp)) =>
        /\ raised \notin {"KeyError", "IndexError"}
        /\ pc = "save" => news_items = <<>>

\* A CMS credential is missing.
CmsCredentialMissing == ~config.strapi_url \/ ~config.strapi_token

\* C6 (as claimed): a credential error is raised only before the pipeline has
\* done any generation, cache write, image download or upload.
C6_CredentialErrorsAtConstruction == raised = "ValueError" => effects = {}

\* C6 (amended): a missing language-model key is raised at construction, before
\* any work.  Missing CMS credentials are not raised at construction: the run goes
\* on, and ValueError is raised by upload_news_items, only with upload_to_strapi
\* set, after the generation, cache-write and download steps; nothing is then sent
\* to the CMS and the run does not return.
C6_CredentialErrorsAmended ==
    /\ (runs > 0 /\ ~config.api_key) =>
          (pc = "failed" /\ raised = "ValueError" /\ effects = {})
    /\ pc = "failed" => ~config.api_key
    /\ (config.api_key /\ pc \in {"idle", "cache", "fresh", "save", "download", "upload"})
          => raised = "none"
    /\ (pc = "raised" /\ raised = "ValueError") =>
          /\ CmsCredentialMissing
          /\ args.upload_to_strapi
          /\ create_log = <<>>
          /\ gen_calls = 1 => "generate" \in effects
          /\ (gen_calls = 1 /\ args.save_json) => "cache_write" \in effects
          /\ (args.download_images /\ \E i \in 1..Len(news_items) :
                                          Truthy(news_items[i].image_url))
                => "download" \in effects
    /\ CmsCredentialMissing => effects \cap {"create", "asset_upload"} = {}
    /\ (pc = "done" /\ args.upload_to_strapi) => ~CmsCredentialMissing
    /\ (pc \in {"upload_loop"}) => ~CmsCredentialMissing

\* C6 witness: the credential error comes after generation, cache write and download.
C6_Witness ==
    /\ pc = "raised"
    /\ raised = "ValueError"
    /\ {"generate", "cache_write", "download"} \subseteq effects

\* C7: with force_fetch false, a cache file that exists but does not parse, or
\* parses to an empty array, is loaded to no records without raising, and the
\* generator is invoked in the same invocation, as for a missing file.
C7_UnusableCacheFallsThrough ==
    (pc \in Running \cup Ended /\ ~args.force_fetch /\ ~CacheUsable(cache_before)) =>
        /\ (pc # "cache" /\ FileExists(cache_before)) =>
              (loaded.called /\ loaded.items = <<>>)
        /\ pc = "fresh" => (news_items = <<>> /\ raised = "none" /\ gen_calls = 0)
        /\ pc \in AfterFresh => (gen_calls = 1 /\ "generate" \in effects)

\* C7 witness: a run that found a cache file with a record lacking its title and
\* returned generated records.
C7_Witness ==
    /\ pc = "done"
    /\ ~args.force_fetch
    /\ cache_before = JsonFile(<<RawNoTitle>>)
    /\ gen_calls = 1
    /\ Len(result) > 0

\* The records of a published batch whose create call the CMS answered with the
\* created identifier (in either form of the response).
CreatedEntries == SelectSeq(create_log, LAMBDA e : e.outcome \in CreatedOutcomes)

\* The processing of the record of entry e failed, in the sense of C3: an image
\* that could not be attached, or a create call that failed or gave no identifier.
EntryFailed(e) ==
    \/ e.outcome \notin CreatedOutcomes
    \/ /\ ~e.cover
       /\ \/ Truthy(news_items[e.position].image_url)
          \/ Truthy(news_items[e.position].local_image_path)

\* upload_news_items has returned.
Published == pc = "done" /\ args.upload_to_strapi

\* C3 (as claimed): when the processing of a record fails, the create call is
\* still attempted for every later record of the batch, and every later record
\* the CMS created contributes its identifier to the result.
C3_FailureDoesNotStopBatch ==
    Published =>
        \A j \in 1..Len(news_items) :
            (\E i \in 1..(j - 1) : i <= Len(create_log) /\ EntryFailed(create_log[i])) =>
                /\ j <= Len(create_log)
                /\ create_log[j].position = j
                /\ create_log[j].create_call
                /\ create_log[j].outcome \in CreatedOutcomes =>
                      create_log[j].id \in Range(created_ids)

\* C8 (as claimed): the result holds exactly the identifiers of the records the
\* CMS created, in batch order, and nothing for the others.
C8_OneIdPerCreatedRecord ==
    Published =>
        /\ Len(created_ids) <= Len(news_items)
        /\ created_ids = [k \in 1..Len(CreatedEntries) |-> CreatedEntries[k].id]

\* A record with neither a remote nor a local image.
NoImage(item) == ~Truthy(item.image_url) /\ ~Truthy(item.local_image_path)

\* C9: a record with neither image_url nor local_image_path is skipped by
\* save_images_locally (no download, local_image_path stays unset, no error), and
\* upload_news_items sends its create payload without cover and without calling
\* the asset-upload endpoint.
C9_NoImageRecordSkipped ==
    [][/\ (pc = "download" /\ args.download_images) =>
             /\ pc' = "upload"
             /\ raised' = raised
             /\ \A i \in 1..Len(news_items) :
                   NoImage(news_items[i]) =>
                       (i \notin downloaded' /\ news_items'[i] = news_items[i])
       /\ (pc = "upload_loop" /\ idx <= Len(news_items) /\ NoImage(news_items[idx])) =>
             /\ Len(create_log') = Len(create_log) + 1
             /\ create_log'[Len(create_log')].position = idx
             /\ create_log'[Len(create_log')].create_call
             /\ ~create_log'[Len(create_log')].cover
             /\ ~create_log'[Len(create_log')].asset_call
             /\ idx' = idx + 1]_vars

\* C9 witness: a record without any image went through the download step and
\* was published.
C9_Witness ==
    /\ Published
    /\ args.download_images
    /\ \E i \in 1..Len(result) :
          /\ NoImage(result[i])
          /\ i <= Len(create_log)
          /\ ~create_log[i].cover

\* C10: saving a list and loading the file back gives a list of the same length
\* and order whose records have the title, summary, source, url, published_date,
\* category, image_url and slug of the saved ones; local_image_path is not in the
\* file and is unset on every loaded record.
C10_RoundTrip ==
    pc = "loaded" =>
        /\ Len(result) = Len(news_items)
        /\ cache_file.kind = "json"
        /\ Len(cache_file.data) = Len(news_items)
        /\ \A i \in 1..Len(news_items) :
              /\ SamePersistedFields(result[i], news_items[i])
              /\ result[i].local_image_path = None
              /\ DOMAIN cache_file.data[i] = PersistedFields

\* C10 witness: a loaded list of two different records, one of which had a local
\* image and one a slug that is not the slug of its title.
C10_Witness ==
    /\ pc = "loaded"
    /\ Len(news_items) = 2
    /\ news_items[1].title # news_items[2].title
    /\ news_items[1].local_image_path # None
    /\ news_items[1].url # None
    /\ news_items[2].url = None
    /\ news_items[2].slug # slugify(news_items[2].title)

\* ------------------------------------------------------------------ C11
\* [a-z0-9] within the characters of the model.
LowerAlnum == {"a", "b", "e", "1"}

Slugged == pc = "slugged"

\* No hyphen at either end and no two hyphens in a row.
HyphensTidy(s) ==
    /\ s # <<>> => (s[1] # "-" /\ s[Len(s)] # "-")
    /\ \A i \in 1..(Len(s) - 1) : ~(s[i] = "-" /\ s[i + 1] = "-")

\* C11 as claimed: for any title, slugify(title) is lowercase, has no whitespace,
\* has no character outside [a-z0-9-], has no leading or trailing hyphen and no
\* two consecutive hyphens.
C11_SlugShape ==
    Slugged =>
        /\ Range(news_items[1].slug) \subseteq LowerAlnum \cup {"-"}
        /\ HyphensTidy(news_items[1].slug)

\* C11 amended: the underscore is a word character and is kept, so slugify(title)
\* has no character outside [a-z0-9_-]; it is lowercase, has no whitespace, no
\* leading or trailing hyphen and no two consecutive hyphens.
C11_SlugShapeAmended ==
    Slugged =>
        /\ Range(news_items[1].slug) \subseteq LowerAlnum \cup {"-", "_"}
        /\ HyphensTidy(news_items[1].slug)

\* A title with an upper-case letter, whitespace and an underscore has been
\* slugified: the underscore is kept, the space became a hyphen.
C11_Witness ==
    /\ Slugged
    /\ news_items[1].title = <<"A", " ", "_">>
    /\ news_items[1].slug = <<"a", "-", "_">>

\* ------------------------------------------------------------------ C13
\* The two forms in which a 2xx answer to the create call carries the identifier.
IdAsObject == "object_id"
IdAsList == "list_id"

\* C13 (as claimed): when the 2xx answer to a create call carries the identifier
\* as data.id or as data[0].id, the identifier is appended to the result; the
\* record is skipped only when the answer carries it in neither form.
C13_BothIdFormsExtracted ==
    \A k \in 1..Len(create_log) :
        /\ create_log[k].outcome \in {IdAsObject, IdAsList} =>
              create_log[k].id \in Range(created_ids)
        /\ create_log[k].outcome = "no_id" =>
              ServerId(runs, create_log[k].position) \notin Range(created_ids)

\* ------------------------------------------------------------------ C14
\* generate_news_items has returned in this run.
GenerationReturned == gen_calls = 1 /\ raised \notin {"KeyError", "IndexError"}

\* Every object of the answer has title, summary and source.
WellFormed(resp) ==
    /\ resp.kind = "content"
    /\ \A i \in 1..Len(resp.data) : {"title", "summary", "source"} \subseteq DOMAIN resp.data[i]

\* C14: for each generated record the resolver calls the photo search first and
\* calls image generation only when the search returned nothing; when both return
\* nothing, image_url stays unset, the record is still in the list that is
\* returned, and no error is raised.
C14_SearchFirstThenGeneration ==
    /\ GenerationReturned =>
          /\ Len(image_calls) = Len(news_items)
          /\ WellFormed(llm_resp) => Len(news_items) = Len(llm_resp.data)
          /\ pc = "done" => Len(result) = Len(news_items)
          /\ \A i \in 1..Len(image_calls) :
                LET calls == image_calls[i]
                IN  /\ calls[1].call = "search_image"
                    /\ Truthy(calls[1].returned) =>
                          /\ Len(calls) = 1
                          /\ news_items[i].image_url = calls[1].returned
                    /\ ~Truthy(calls[1].returned) =>
                          /\ Len(calls) = 2
                          /\ calls[2].call = "generate_image"
                          /\ IF Truthy(calls[2].returned)
                             THEN news_items[i].image_url = calls[2].returned
                             ELSE news_items[i].image_url = None
                    /\ pc = "done" => result[i].image_url = news_items[i].image_url
    /\ (gen_calls = 1 /\ WellFormed(llm_resp)) => raised \notin {"KeyError", "IndexError"}

\* A run has returned a generated record for which the search and the generation
\* both gave nothing.
C14_Witness ==
    /\ pc = "done"
    /\ gen_calls = 1
    /\ Len(result) = 1
    /\ result[1].image_url = None
    /\ Len(image_calls[1]) = 2
    /\ ~Truthy(image_calls[1][2].returned)

\* ------------------------------------------------------------------ C15
\* The answers on which generate_news returns an empty list.
EmptyAnswer(resp) ==
    \/ resp.kind \in {"transport", "malformed_json", "missing_key"}
    \/ resp.kind = "content" /\ resp.data = <<>>

\* C15: within one invocation of process_news the generator is invoked at most
\* once; when it returns an empty list the invocation goes on with zero records
\* (nothing is downloaded, nothing is sent to the CMS, the list returned is empty)
\* and generation is not tried again.
C15_GeneratedAtMostOnce ==
    /\ gen_calls <= 1
    /\ (gen_calls = 1 /\ EmptyAnswer(llm_resp)) =>
          /\ news_items = <<>>
          /\ pc # "fresh"
          /\ downloaded = {}
          /\ create_log = <<>>
          /\ created_ids = <<>>
          /\ pc = "done" => result = <<>>
          /\ pc = "raised" =>
                /\ raised = "ValueError"
                /\ args.upload_to_strapi
                /\ ~config.strapi_url \/ ~config.strapi_token

\* A run whose generator call failed in transport has gone through the download
\* and publishing steps and returned the empty list.
C15_Witness ==
    /\ pc = "done"
    /\ gen_calls = 1
    /\ llm_resp.kind = "transport"
    /\ args.download_images
    /\ args.upload_to_strapi
    /\ result = <<>>

\* ------------------------------------------------------------------ C12
\* C12 (as claimed): save_images_locally downloads only for records that hold
\* image_url and lack a local image; a record that already has local_image_path
\* (attached by find_local_images on a cache hit) is not downloaded again and
\* keeps its local_image_path.
C12_LocalImageNotDownloadedAgain ==
    [][(pc = "download" /\ args.download_images) =>
          \A i \in 1..Len(news_items) :
              /\ i \in downloaded' =>
                    /\ Truthy(news_items[i].image_url)
                    /\ ~Truthy(news_items[i].local_image_path)
              /\ Truthy(news_items[i].local_image_path) =>
                    news_items'[i].local_image_path = news_items[i].local_image_path]_vars

\* ------------------------------------------------------------------ C16
\* The JSON form of a field of a record: None is written as null.
JsonForm(v) == IF v = None THEN JsonNull ELSE v

\* The file holds exactly the persisted form of the records of `items`.
HoldsExactly(file, items) ==
    /\ file.kind = "json"
    /\ Len(file.data) = Len(items)
    /\ \A i \in 1..Len(items) :
          /\ DOMAIN file.data[i] = PersistedFields
          /\ \A k \in PersistedFields : file.data[i][k] = JsonForm(items[i][k])

\* C16 (as claimed): after any invocation in which the generator was invoked and
\* save_json is set, the cache file holds exactly the persisted form of the
\* records generated in that invocation and nothing of its previous content; with
\* zero records generated it holds the empty array.
C16_CacheReplacedByGenerated ==
    (pc \in Ended /\ gen_calls = 1 /\ args.save_json) =>
        HoldsExactly(cache_file, news_items)

\* The same for the invocations in which generation returned.
C16_WhenGenerationReturns ==
    (pc \in Ended /\ gen_calls = 1 /\ args.save_json
        /\ raised \notin {"KeyError", "IndexError"}) =>
        HoldsExactly(cache_file, news_items)

\* ------------------------------------------------------------------ C17
\* The records with title t that the running call of upload_news_items has not
\* reached yet.
Pending(t) ==
    IF pc = "upload_loop"
    THEN Cardinality({i \in idx..Len(news_items) : news_items[i].title = t})
    ELSE 0

\* C17: nothing the pipeline keeps says what was published.  Every invocation with
\* upload_to_strapi sends one create call for every record of its list, whether
\* or not an earlier invocation already created it, so over all invocations the
\* number of create calls sent for a record equals the number of publishing
\* invocations that had it in their list.
C17_EveryPublishingRunResubmits ==
    /\ Published =>
          /\ Len(create_log) = Len(news_items)
          /\ \A i \in 1..Len(news_items) :
                /\ create_log[i].create_call
                /\ create_log[i].title = news_items[i].title
    /\ DOMAIN cms.attempts \subseteq DOMAIN cms.batches
    /\ \A t \in DOMAIN cms.batches :
          CountOf(cms.attempts, t) + Pending(t) = cms.batches[t]

\* A cache-hit run has published a record that an earlier run had already
\* published and the CMS had created: it was sent twice and the CMS now holds
\* two articles for it.
C17_Witness ==
    /\ Published
    /\ loaded.called
    /\ gen_calls = 0
    /\ Len(result) = 1
    /\ CountOf(cms.batches, result[1].title) = 2
    /\ CountOf(cms.attempts, result[1].title) = 2
    /\ CountOf(cms.created, result[1].title) = 2
====
